---- MODULE Spec2Model ----
(***************************************************************************)
(* Model of the PI7C9XG404 register dumper (src/main.rs).                  *)
(*                                                                         *)
(* Spec     : the program, from main() on: session open, then the sweep of *)
(*            the four ports, one bus transaction per register.            *)
(* FairSpec : Spec with weak fairness of the (sequential) program's step.  *)
(* SpecEnc  : Pi7c9xg404::read_reg called once with any port and any u16   *)
(*            offset (the command-frame encoder on its whole domain).      *)
(***************************************************************************)
EXTENDS Integers, Sequences, FiniteSets, TLC

VARIABLES
    pc,            \* control position: "start", "call", "loop", "done", "exited", "panic", "api", "api_ret"
    portIdx,       \* which of main's four print_port_regs calls is current (1..4)
    port,          \* the port argument of print_port_regs / read_reg ("none" before the first call)
    reg,           \* print_port_regs' loop variable
    offset,        \* the offset argument of the last read_reg call
    write_data,    \* read_reg's command frame (4 bytes)
    read_data,     \* read_reg's reply buffer (4 bytes)
    lastTransfer,  \* how the last i2c transfer ended: "none", "ok", "write_fail", "read_fail"
    ret,           \* what the last read_reg call returned: [ok |-> BOOLEAN, val |-> 4 bytes]
    txlog,         \* every bus transaction issued so far, in order
    stderr,        \* the line the most recent step wrote to stderr ("" when none)
    stdout_ports,  \* the ports of the "Port: ..." header lines printed so far
    stdout_reg,    \* the last register line printed by print_reg
    exitCode,      \* process exit status, -1 while running
    i2c_dev        \* the session's device handle: "unopened", "open", "failed"

vars == <<pc, portIdx, port, reg, offset, write_data, read_data, lastTransfer,
          ret, txlog, stderr, stdout_ports, stdout_reg, exitCode, i2c_dev>>

----------------------------------------------------------------------------
(* Bounds and constants *)

\* Device replies are drawn from the words 0..MaxReply.
MaxReply == 2

\* The largest value of the u16 offset parameter.
U16Max == 65535

PORT_SIZE == 512

Ports == {"Port0", "Port1", "Port2", "Port3"}

\* The little-endian 4-byte word of k.
ReplyWord(k) == <<k % 256, (k \div 256) % 256, (k \div 65536) % 256, 0>>

Replies == {ReplyWord(k) : k \in 0..MaxReply}

ZeroBuf == <<0, 0, 0, 0>>

----------------------------------------------------------------------------
(* Bit arithmetic on machine integers *)

RECURSIVE OrBits(_, _, _)
\* Bitwise OR of the low n bits of a and b.
OrBits(a, b, n) ==
    IF n = 0 THEN 0
    ELSE (IF a % 2 = 1 \/ b % 2 = 1 THEN 1 ELSE 0) + 2 * OrBits(a \div 2, b \div 2, n - 1)

RECURSIVE AndBits(_, _, _)
\* Bitwise AND of the low n bits of a and b.
AndBits(a, b, n) ==
    IF n = 0 THEN 0
    ELSE (IF a % 2 = 1 /\ b % 2 = 1 THEN 1 ELSE 0) + 2 * AndBits(a \div 2, b \div 2, n - 1)

Or8(a, b) == OrBits(a, b, 8)

\* `x as u8`: truncation to the low 8 bits.
AsU8(x) == x % 256

----------------------------------------------------------------------------
(* The bitflags tables *)

B0Cmd_READ == 4

B1PortSel(p) ==
    CASE p = "Port0" -> 0
      [] p = "Port1" -> 0
      [] p = "Port2" -> 1
      [] p = "Port3" -> 1

B2PortSel_Swapped(p) ==
    CASE p = "Port0" -> 0 * 128
      [] p = "Port1" -> 0 * 128
      [] p = "Port2" -> 1 * 128
      [] p = "Port3" -> 1 * 128

B2PortSel(p) ==
    CASE p = "Port0" -> 0 * 128
      [] p = "Port1" -> 1 * 128
      [] p = "Port2" -> 0 * 128
      [] p = "Port3" -> 1 * 128

B2ByteEnable_ALL_ThreeLanes == 7 * 4

B2ByteEnable_ALL == 15 * 4

----------------------------------------------------------------------------
(* read_reg: the command frame *)

Byte2(p, off) == Or8(Or8(B2PortSel(p), B2ByteEnable_ALL), AsU8(off \div 1024))

Byte3_NoShift(off) == AsU8(off)

Byte3(off) == AsU8(off \div 4)

\* write_data as read_reg fills it in.
Encode(p, off) == <<B0Cmd_READ, B1PortSel(p), Byte2(p, off), Byte3(off)>>

----------------------------------------------------------------------------
(* read_reg: the transfer and the return value *)

\* How a transfer can end.
Outcomes == {"ok", "write_fail", "read_fail"}

\* The reply buffer after the transfer: zero-initialised; filled by a
\* successful read phase; untouched when the write phase fails; anything the
\* device got through when the read phase fails.
BufferAfter(outcome) ==
    CASE outcome = "ok" -> Replies
      [] outcome = "write_fail" -> {ZeroBuf}
      [] outcome = "read_fail" -> Replies \cup {ZeroBuf}

\* The transactions one read_reg call puts on the bus: a retry on failure.
BusTraffic_Retry(p, off, frame, outcome) ==
    LET t == [port |-> p, offset |-> off,
              msgs |-> << [dir |-> "write", data |-> frame],
                          [dir |-> "read", len |-> 4] >>]
    IN  IF outcome = "ok" THEN <<t>> ELSE <<t, t>>

\* The transactions one read_reg call puts on the bus: one transfer of two
\* messages, the write of the frame and the read into the 4-byte buffer.
BusTraffic(p, off, frame, outcome) ==
    << [port |-> p, offset |-> off,
        msgs |-> << [dir |-> "write", data |-> frame],
                    [dir |-> "read", len |-> Len(ZeroBuf)] >>] >>

read_reg_result_PropagateWrite(outcome, buf) ==
    IF outcome = "write_fail" THEN [ok |-> FALSE, val |-> ZeroBuf]
    ELSE [ok |-> TRUE, val |-> buf]

read_reg_result_PropagateRead(outcome, buf) ==
    IF outcome = "read_fail" THEN [ok |-> FALSE, val |-> ZeroBuf]
    ELSE [ok |-> TRUE, val |-> buf]

\* What read_reg returns: the match on the transfer's result only logs an
\* error, and Ok(read_data) is returned on every path.
read_reg_result(outcome, buf) == [ok |-> TRUE, val |-> buf]

\* What read_reg writes to stderr.
read_reg_log(outcome) == IF outcome = "ok" THEN "" ELSE "transfer error"

\* One call of read_reg(p, off) whose transfer ends in outcome with buf in
\* the reply buffer.
read_reg(p, off, outcome, buf) ==
    /\ offset' = off
    /\ write_data' = Encode(p, off)
    /\ read_data' = buf
    /\ lastTransfer' = outcome
    /\ txlog' = txlog \o BusTraffic(p, off, Encode(p, off), outcome)
    /\ ret' = read_reg_result(outcome, buf)

----------------------------------------------------------------------------
(* print_port_regs and main *)

RegCount_OffByOne == PORT_SIZE \div 4 - 1

\* The number of iterations of print_port_regs' loop.
RegCount == PORT_SIZE \div 4

PortOrder_Swapped == <<"Port0", "Port2", "Port1", "Port3">>

\* The ports of main's four print_port_regs calls, in program order.
PortOrder == <<"Port0", "Port1", "Port2", "Port3">>

Init ==
    /\ pc = "start"
    /\ portIdx = 1
    /\ port = "none"
    /\ reg = 0
    /\ offset = 0
    /\ write_data = ZeroBuf
    /\ read_data = ZeroBuf
    /\ lastTransfer = "none"
    /\ ret = [ok |-> TRUE, val |-> ZeroBuf]
    /\ txlog = <<>>
    /\ stderr = ""
    /\ stdout_ports = <<>>
    /\ stdout_reg = [offset |-> 0, val |-> ZeroBuf]
    /\ exitCode = -1
    /\ i2c_dev = "unopened"

\* main's Err arm with the exit missing: the failure is reported and main goes on.
init_failed_NoExit ==
    /\ stderr' = "ERROR: Can't access device"
    /\ exitCode' = exitCode
    /\ pc' = "call"

\* main's Err arm of the match on Pi7c9xg404::init.
init_failed ==
    /\ stderr' = "ERROR: Can't access device"
    /\ exitCode' = 255
    /\ pc' = "exited"

\* main up to the first print_port_regs call: Pi7c9xg404::init opens the
\* device (it may fail), and on failure main reports it and exits with -1.
MainInit ==
    /\ pc = "start"
    /\ \E opened \in BOOLEAN :
          /\ i2c_dev' = IF opened THEN "open" ELSE "failed"
          /\ IF opened
             THEN /\ pc' = "call"
                  /\ UNCHANGED <<stderr, exitCode>>
             ELSE init_failed
    /\ UNCHANGED <<portIdx, port, reg, offset, write_data, read_data,
                   lastTransfer, ret, txlog, stdout_ports, stdout_reg>>

\* main calls print_port_regs(PortOrder[portIdx]); the header line is printed.
PrintPortRegsEnter ==
    /\ pc = "call"
    /\ port' = PortOrder[portIdx]
    /\ stdout_ports' = Append(stdout_ports, PortOrder[portIdx])
    /\ reg' = 0
    /\ pc' = "loop"
    /\ stderr' = ""
    /\ UNCHANGED <<portIdx, offset, write_data, read_data, lastTransfer, ret,
                   txlog, stdout_reg, exitCode, i2c_dev>>

\* One iteration of print_port_regs' loop: read_reg(port, reg * 4)?, then
\* print_reg. An Err leaves print_port_regs through `?` and main's unwrap panics.
LoopIter ==
    /\ pc = "loop"
    /\ reg < RegCount
    /\ \E outcome \in Outcomes : \E buf \in BufferAfter(outcome) :
          /\ read_reg(port, reg * 4, outcome, buf)
          /\ IF ret'.ok
             THEN /\ stdout_reg' = [offset |-> reg * 4, val |-> ret'.val]
                  /\ stderr' = read_reg_log(outcome)
                  /\ reg' = reg + 1
                  /\ pc' = "loop"
                  /\ UNCHANGED exitCode
             ELSE /\ stderr' = "panicked"
                  /\ exitCode' = 101
                  /\ pc' = "panic"
                  /\ UNCHANGED <<stdout_reg, reg>>
    /\ UNCHANGED <<portIdx, port, stdout_ports, i2c_dev>>

\* The loop is over: print_port_regs returns Ok(()), main unwraps it and goes
\* on to the next call, or returns after the fourth.
PrintPortRegsReturn ==
    /\ pc = "loop"
    /\ reg >= RegCount
    /\ stderr' = ""
    /\ IF portIdx < Len(PortOrder)
       THEN /\ portIdx' = portIdx + 1
            /\ pc' = "call"
            /\ UNCHANGED exitCode
       ELSE /\ pc' = "done"
            /\ exitCode' = 0
            /\ UNCHANGED portIdx
    /\ UNCHANGED <<port, reg, offset, write_data, read_data, lastTransfer, ret,
                   txlog, stdout_ports, stdout_reg, i2c_dev>>

Next == MainInit \/ PrintPortRegsEnter \/ LoopIter \/ PrintPortRegsReturn

Spec == Init /\ [][Next]_vars

\* The program is sequential and every call blocks until it returns: a step
\* that can be taken is taken.
FairSpec == Spec /\ WF_vars(Next)

----------------------------------------------------------------------------
(* read_reg on its whole domain *)

InitEnc ==
    /\ pc = "api"
    /\ portIdx = 1
    /\ port \in Ports
    /\ reg = 0
    /\ offset \in 0..U16Max
    /\ write_data = ZeroBuf
    /\ read_data = ZeroBuf
    /\ lastTransfer = "none"
    /\ ret = [ok |-> TRUE, val |-> ZeroBuf]
    /\ txlog = <<>>
    /\ stderr = ""
    /\ stdout_ports = <<>>
    /\ stdout_reg = [offset |-> 0, val |-> ZeroBuf]
    /\ exitCode = -1
    /\ i2c_dev = "open"

\* A caller invokes read_reg(port, offset).
ApiReadReg ==
    /\ pc = "api"
    /\ \E outcome \in Outcomes : \E buf \in BufferAfter(outcome) :
          /\ read_reg(port, offset, outcome, buf)
          /\ stderr' = read_reg_log(outcome)
    /\ pc' = "api_ret"
    /\ UNCHANGED <<portIdx, port, reg, stdout_ports, stdout_reg, exitCode, i2c_dev>>

NextEnc == ApiReadReg

SpecEnc == InitEnc /\ [][NextEnc]_vars

----------------------------------------------------------------------------
(* Properties *)

\* The frame of the last transaction put on the bus.
LastFrame == txlog[Len(txlog)].msgs[1].data

PortNum(p) ==
    CASE p = "Port0" -> 0
      [] p = "Port1" -> 1
      [] p = "Port2" -> 2
      [] p = "Port3" -> 3

\* The transactions that targeted port p, in the order issued.
PortReads(p) == SelectSeq(txlog, LAMBDA t : t.port = p)

\* print_port_regs(p) was called and has returned.
SweepOver(p) ==
    /\ \E i \in 1..Len(stdout_ports) : stdout_ports[i] = p
    /\ pc \in {"call", "done"} \/ port # p

\* A step that is one register read of the sweep.
IsRegisterRead == pc = "loop" /\ pc' \in {"loop", "panic"} /\ vars' # vars

\* C1: when the read phase of a register read's transfer fails, read_reg
\* returns the error and the dump ends there, abnormally: nothing more is read.
C1_ReadPhaseFailureIsFatal ==
    lastTransfer = "read_fail" =>
        /\ ~ret.ok
        /\ pc = "panic"
        /\ exitCode \notin {-1, 0}

\* C2: a register read whose write phase fails logs the failure, returns Ok
\* with the contents of the read buffer, and the sweep goes on to the next
\* offset.
C2_WritePhaseFailureTolerated ==
    [][(IsRegisterRead /\ lastTransfer' = "write_fail") =>
          /\ ret'.ok
          /\ ret'.val = read_data'
          /\ stderr' = "transfer error"
          /\ stdout_reg' = [offset |-> offset', val |-> read_data']
          /\ pc' = "loop"
          /\ reg' = reg + 1
          /\ exitCode' = -1]_vars

C2_Witness ==
    /\ lastTransfer = "write_fail"
    /\ ret.ok
    /\ pc = "loop"
    /\ reg = 5
    /\ Len(txlog) = 5

\* C3: the reads of each port are at offsets 0, 4, 8, ... in ascending order
\* with no gap and no duplicate, never beyond 0x1FC, and a sweep that has
\* returned issued exactly 128 of them.
C3_SweepCoversPort ==
    \A p \in Ports :
        LET s == PortReads(p) IN
        /\ \A i \in 1..Len(s) : s[i].offset = 4 * (i - 1) /\ s[i].offset <= 508
        /\ SweepOver(p) => Len(s) = 128

C3_Witness ==
    /\ SweepOver("Port2")
    /\ Len(PortReads("Port2")) = 128
    /\ PortReads("Port2")[128].offset = 508

\* C4: the port headers are printed in the order Port0, Port1, Port2, Port3,
\* each once; the reads never go back to a lower port; and a finished dump has
\* visited all four.
C4_PortOrder ==
    /\ Len(stdout_ports) <= 4
    /\ \A i \in 1..Len(stdout_ports) :
          stdout_ports[i] = <<"Port0", "Port1", "Port2", "Port3">>[i]
    /\ \A i \in 1..Len(txlog) :
          /\ txlog[i].port = stdout_ports[PortNum(txlog[i].port) + 1]
          /\ i < Len(txlog) => PortNum(txlog[i].port) <= PortNum(txlog[i + 1].port)
    /\ pc = "done" =>
          /\ Len(stdout_ports) = 4
          /\ {txlog[i].port : i \in 1..Len(txlog)} = Ports

C4_Witness ==
    /\ pc = "done"
    /\ txlog[1].port = "Port0"
    /\ txlog[Len(txlog)].port = "Port3"

\* C5: for every port and every aligned offset o below 0x200, the frame put
\* on the bus gives o back as ((byte2 & 0b11) << 10) | (byte3 << 2).
C5_OffsetRoundTrip ==
    (pc = "api_ret" /\ offset < 512 /\ offset % 4 = 0) =>
        OrBits(AndBits(LastFrame[3], 3, 8) * 1024, LastFrame[4] * 4, 16) = offset

C5_Witness ==
    /\ pc = "api_ret"
    /\ port = "Port3"
    /\ offset = 508
    /\ LastFrame[4] = 127
    /\ AndBits(LastFrame[3], 3, 8) = 0

\* C6: for every offset, (byte 1, bit 7 of byte 2) of the frame is (0,0) for
\* Port0, (0,1) for Port1, (1,0) for Port2 and (1,1) for Port3.
C6_PortSelector ==
    pc = "api_ret" =>
        <<LastFrame[2], LastFrame[3] \div 128>> =
            (CASE port = "Port0" -> <<0, 0>>
               [] port = "Port1" -> <<0, 1>>
               [] port = "Port2" -> <<1, 0>>
               [] port = "Port3" -> <<1, 1>>)

C6_Witness ==
    /\ pc = "api_ret"
    /\ port = "Port2"
    /\ offset = 65532
    /\ LastFrame[2] = 1
    /\ LastFrame[3] = 63

\* C7: bits 2-5 of byte 2 of every frame are all set, whatever the port and
\* the 16-bit offset.
C7_ByteEnableAll ==
    pc = "api_ret" => (LastFrame[3] \div 4) % 16 = 15

C7_Witness ==
    /\ pc = "api_ret"
    /\ port = "Port1"
    /\ offset = 1024
    /\ LastFrame[3] = 128 + 60 + 1

\* C8: when the session cannot be opened the failure is reported and the
\* process has exited with a non-zero status, no transaction issued.
C8_OpenFailureExits ==
    i2c_dev = "failed" =>
        /\ pc = "exited"
        /\ exitCode \notin {-1, 0}
        /\ stderr = "ERROR: Can't access device"
        /\ txlog = <<>>
        /\ lastTransfer = "none"
        /\ stdout_ports = <<>>

C8_Witness ==
    /\ i2c_dev = "failed"
    /\ pc = "exited"
    /\ exitCode = 255

\* C9: a register read puts exactly one transaction on the bus, the write of
\* the 4-byte frame then the read of 4 bytes, for a (port, offset) no earlier
\* transaction targeted; no other step puts anything on the bus.
C9_NoRetries ==
    [][IF IsRegisterRead
       THEN /\ Len(txlog') = Len(txlog) + 1
            /\ SubSeq(txlog', 1, Len(txlog)) = txlog
            /\ LET t == txlog'[Len(txlog')] IN
               /\ t.port = port
               /\ t.offset = offset'
               /\ Len(t.msgs) = 2
               /\ t.msgs[1].dir = "write"
               /\ t.msgs[1].data = write_data'
               /\ Len(t.msgs[1].data) = 4
               /\ t.msgs[2].dir = "read"
               /\ t.msgs[2].len = 4
               /\ \A i \in 1..Len(txlog) :
                     <<txlog[i].port, txlog[i].offset>> # <<t.port, t.offset>>
       ELSE txlog' = txlog]_vars

C9_Witness ==
    /\ lastTransfer = "read_fail"
    /\ pc = "loop"
    /\ reg = 3
    /\ Len(txlog) = 128 + 3

\* C10: once the session is open the run ends normally after exactly 512
\* register reads, whichever transfers fail: it never panics.
C10_AlwaysCompletes ==
    /\ [](pc # "panic" /\ ret.ok)
    /\ [](pc = "done" => Len(txlog) = 512 /\ exitCode = 0)
    /\ (i2c_dev = "open") ~> (pc = "done")

C10_Witness ==
    /\ pc = "done"
    /\ exitCode = 0
    /\ Len(txlog) = 512
    /\ lastTransfer = "read_fail"

====
